---- MODULE Spec2Model ----
(***************************************************************************)
(* Batch reconciliation service: BatchDataService (src/service-1.ts, and   *)
(* the earlier revision with the SQL schema in src/unnamed/part_000).      *)
(*                                                                         *)
(* JavaScript values are modelled by tagged records:                       *)
(*   numbers used as ids   [t |-> "number", h |-> twice the number]        *)
(*   strings               [t |-> "string", c, pre, len, post]: content    *)
(*                         tag c, pre/post = leading/trailing whitespace,  *)
(*                         len = characters between them                   *)
(*   numeric values        [t |-> "number" | "NaN" | "Infinity", m]        *)
(*                         m = the number in thousandths                   *)
(*   Date                  [t |-> "date" | "invalid", ms]                  *)
(***************************************************************************)
EXTENDS Integers, Sequences, FiniteSets, TLC

VARIABLES table, catalog, run

vars == <<table, catalog, run>>

----------------------------------------------------------------------------
(* Bounds of the model *)

\* longest raw batch given to the normalizer/validator specification
MaxLenV == 3
\* longest raw batch given to a pipeline run
MaxLenP == 2
\* longest feed of a run that shares the store with another run
MaxLenC == 2

(* Program constants *)

\* service-1.ts:348  record.name.length > 255
MaxNameLen == 255

----------------------------------------------------------------------------
(* JavaScript values *)

Undefined == [t |-> "undefined", h |-> 0]
Num(h) == [t |-> "number", h |-> h]

UndefinedStr == [t |-> "undefined", c |-> "", pre |-> 0, len |-> 0, post |-> 0]
\* a value that is neither null/undefined nor a string (a number, an object)
NonString == [t |-> "nonstring", c |-> "", pre |-> 0, len |-> 0, post |-> 0]
Str(c, pre, len, post) == [t |-> "string", c |-> c, pre |-> pre, len |-> len, post |-> post]
EmptyStr == Str("", 0, 0, 0)
UnknownStr == Str("Unknown", 0, 7, 0)

\* String.prototype.length
Length(s) == s.pre + s.len + s.post
\* String.prototype.trim
Trim(s) == [s EXCEPT !.pre = 0, !.post = 0]
\* !s for a string-or-undefined value
StrFalsy(s) == IF s.t = "string" THEN Length(s) = 0 ELSE s.t = "undefined"

JsNumber(m) == [t |-> "number", m |-> m]
NaN == [t |-> "NaN", m |-> 0]
Infinity == [t |-> "Infinity", m |-> 0]
\* a raw value that Number() cannot convert: undefined, "abc", an object
NonNumeric == [t |-> "nonnumeric", m |-> 0]

\* Number(x)
ToNumber(x) == IF x.t = "nonnumeric" THEN NaN ELSE x
\* isNaN(x)
IsNaN(x) == x.t = "NaN"
\* !x for a number
NumFalsy(x) == IF x.t = "number" THEN x.m = 0 ELSE x.t = "NaN"

NoTimestamp == [t |-> "undefined", ms |-> 0]
Timestamp(ms) == [t |-> "string", ms |-> ms]
BadTimestamp == [t |-> "garbage", ms |-> 0]
DateOf(ms) == [t |-> "date", ms |-> ms]
InvalidDate == [t |-> "invalid", ms |-> 0]
\* new Date(string)
NewDate(s) == IF s.t = "string" THEN DateOf(s.ms) ELSE InvalidDate

\* the values new Date() can return during a run
NowTimes == {DateOf(9)}

----------------------------------------------------------------------------
(* transformExternalData *)

\* record.name?.trim() throws a TypeError when name is neither
\* null/undefined nor a string (no trim method)
TrimThrows(s) == s.t = "nonstring"

\* x?.trim() || dflt
TrimOr(s, dflt) ==
  IF s.t = "undefined" THEN dflt
  ELSE IF Length(Trim(s)) = 0 THEN dflt ELSE Trim(s)

\* Number(record.value) || 0
NumberOrZero(x) == IF NumFalsy(ToNumber(x)) THEN JsNumber(0) ELSE ToNumber(x)

TransformRecord(record, now) ==
  [ id        |-> record.id,
    name      |-> TrimOr(record.name, EmptyStr),
    value     |-> NumberOrZero(record.value),
    status    |-> TrimOr(record.status, UnknownStr),
    updatedAt |-> IF record.lastModified.t = "undefined"
                  THEN now ELSE NewDate(record.lastModified) ]

\* the map callback throws on some record
TransformThrows(externalRecords) ==
  \E i \in 1..Len(externalRecords) :
     TrimThrows(externalRecords[i].name) \/ TrimThrows(externalRecords[i].status)

transformExternalData(externalRecords, now) ==
  [i \in 1..Len(externalRecords) |-> TransformRecord(externalRecords[i], now)]

----------------------------------------------------------------------------
(* validateRecords *)

Reason(msg) == [msg |-> msg, at |-> -1]
DuplicateReason(k) == [msg |-> "Duplicate ID found at index", at |-> k]

\* !record.id || record.id <= 0
InvalidId(id) == IF id.t = "number" THEN id.h <= 0 ELSE TRUE

\* variant of NameTooLong: the comparison written >= instead of >
NameTooLongOffByOne(name) == (~StrFalsy(name)) /\ Length(name) >= MaxNameLen

\* record.name && record.name.length > 255
NameTooLong(name) == (~StrFalsy(name)) /\ Length(name) > MaxNameLen

\* variant of FindIndex: the search compares nothing and finds nothing
FindIndexNever(validRecords, id) == -1

\* validRecords.findIndex(r => r.id === record.id): 0-based, -1 when absent
FindIndex(validRecords, id) ==
  IF \E j \in 1..Len(validRecords) : validRecords[j].id = id
  THEN (CHOOSE j \in 1..Len(validRecords) :
          /\ validRecords[j].id = id
          /\ \A k \in 1..(j - 1) : validRecords[k].id # id) - 1
  ELSE -1

RecordErrors(record, validRecords) ==
  (IF InvalidId(record.id) THEN <<Reason("Invalid or missing ID")>> ELSE <<>>)
  \o (IF StrFalsy(record.name) THEN <<Reason("Name is required")>> ELSE <<>>)
  \o (IF NameTooLong(record.name)
      THEN <<Reason("Name exceeds maximum length (255 characters)")>> ELSE <<>>)
  \o (IF IsNaN(record.value) THEN <<Reason("Invalid value format")>> ELSE <<>>)
  \o (IF StrFalsy(record.status) THEN <<Reason("Status is required")>> ELSE <<>>)
  \o (IF FindIndex(validRecords, record.id) # -1
      THEN <<DuplicateReason(FindIndex(validRecords, record.id))>> ELSE <<>>)

\* variant of ErrorEntry: the message carries the 0-based index
ErrorEntryZeroBased(position, id, recordErrors) ==
  [index |-> position - 1, id |-> id, reasons |-> recordErrors]

\* `Record ${index + 1} (ID: ${record.id}): ${recordErrors.join(', ')}`
\* (position is the 1-based position index + 1 of the message)
ErrorEntry(position, id, recordErrors) ==
  [index |-> position, id |-> id, reasons |-> recordErrors]

RECURSIVE ValidateFrom(_, _, _, _)
ValidateFrom(records, position, validRecords, errors) ==
  IF position > Len(records) THEN [valid |-> validRecords, errors |-> errors]
  ELSE LET record == records[position]
           recordErrors == RecordErrors(record, validRecords)
       IN IF Len(recordErrors) > 0
          THEN ValidateFrom(records, position + 1, validRecords,
                            Append(errors, ErrorEntry(position, record.id, recordErrors)))
          ELSE ValidateFrom(records, position + 1, Append(validRecords, record), errors)

\* returns validRecords and the errors array after the pushes
validateRecords(records, errors) == ValidateFrom(records, 1, <<>>, errors)

----------------------------------------------------------------------------
(* The store: YourTableName, the catalog, sp_UpdateOpenRecords *)

\* identities a stored entity can have
StoreIds == {1, 2}

InitRow(open) ==
  [ Name |-> Str("Old", 0, 3, 0), Value |-> 5000, Status |-> Str("Init", 0, 4, 0),
    isOpen |-> open, UpdatedAt |-> DateOf(0) ]

\* the tables the store can hold before the first run
InitTables == UNION { [S -> {InitRow(TRUE), InitRow(FALSE)}] : S \in SUBSET StoreIds }

\* sys.table_types / sys.procedures / sys.parameters as verifyDatabaseObjects reads them
Catalogs ==
  { [tableType |-> TRUE, proc |-> p] : p \in {"ok", "missing", "noparam", "wrongtype"} }
  \cup { [tableType |-> FALSE, proc |-> p] : p \in {"ok", "missing"} }

\* request.execute('sp_UpdateOpenRecords') with a RecordDataType parameter can run
CatalogOk(c) == c.tableType /\ c.proc = "ok"

\* conversion of a JavaScript number to SQL INT (fraction dropped)
ToSqlInt(id) == IF id.h >= 0 THEN id.h \div 2 ELSE -((-id.h) \div 2)

\* conversion of a finite number (thousandths) to DECIMAL(10,2)
ToDecimal(m) == IF m >= 0 THEN ((m + 5) \div 10) * 10 ELSE -(((-m) + 5) \div 10) * 10

\* variant of Matched: the WHERE target.isOpen = 1 clause left out
MatchedIgnoringIsOpen(tb, source) ==
  {id \in DOMAIN tb : \E i \in 1..Len(source) : source[i].Id = id}

\* target rows of: UPDATE target ... INNER JOIN source ON target.Id = source.Id
\*                 WHERE target.isOpen = 1
Matched(tb, source) ==
  {id \in DOMAIN tb : tb[id].isOpen /\ \E i \in 1..Len(source) : source[i].Id = id}

\* the ways the UPDATE can assign source rows to the matched target rows
\* (with several source rows for one Id, SQL Server takes any one of them)
Picks(tb, source) ==
  {f \in [Matched(tb, source) -> 1..Len(source)] :
      \A id \in Matched(tb, source) : source[f[id]].Id = id}

\* SET Name = source.Name, Value = source.Value, Status = source.Status,
\*     UpdatedAt = source.UpdatedAt
UpdateRow(row, src) ==
  [row EXCEPT !.Name = src.Name, !.Value = src.Value,
              !.Status = src.Status, !.UpdatedAt = src.UpdatedAt]

ApplyUpdate(tb, source, pick) ==
  [id \in DOMAIN tb |-> IF id \in DOMAIN pick THEN UpdateRow(tb[id], source[pick[id]])
                        ELSE tb[id]]

\* the rows a transaction has written, with their values before it
UndoLog(tb, ids) == {<<id, tb[id]>> : id \in ids}

\* variant of Rollback: the CATCH block rethrows without rolling back
RollbackKeepsWrites(tb, undo) == tb

\* ROLLBACK TRANSACTION
Rollback(tb, undo) ==
  [id \in DOMAIN tb |-> IF \E u \in undo : u[1] = id
                        THEN (CHOOSE u \in undo : u[1] = id)[2] ELSE tb[id]]

----------------------------------------------------------------------------
(* verifyDatabaseObjects *)

Issue(msg) == ErrorEntry(0, Undefined, <<Reason(msg)>>)

TableTypeIssues(c) ==
  IF c.tableType THEN <<>>
  ELSE <<Issue("User-defined table type \"RecordDataType\" does not exist")>>

ProcIssues(c) ==
  IF c.proc = "missing"
  THEN <<Issue("Stored procedure \"sp_UpdateOpenRecords\" does not exist")>> ELSE <<>>

ParamIssues(c) ==
  IF c.proc = "noparam" THEN <<Issue("Stored procedure missing @RecordData parameter")>>
  ELSE IF c.proc = "wrongtype"
  THEN <<Issue("@RecordData parameter type is not RecordDataType")>> ELSE <<>>

\* failAt = 0: every metadata query answers; failAt = k: the k-th query throws
verifyDatabaseObjects(c, failAt) ==
  LET caught == <<Issue("Error during verification")>>
  IN CASE failAt = 1 -> caught
       [] failAt = 2 -> TableTypeIssues(c) \o caught
       [] failAt = 3 /\ c.proc # "missing" -> TableTypeIssues(c) \o ProcIssues(c) \o caught
       [] OTHER -> TableTypeIssues(c) \o ProcIssues(c) \o ParamIssues(c)

----------------------------------------------------------------------------
(* updateOpenRecords: building the table-valued parameter *)

\* parseInt(record.id?.toString() || '0')
ParseIntId(id) == IF id.t = "number" THEN ToSqlInt(id) ELSE 0

\* service-1.ts: the per-row checks before table.rows.add
RowThrows(record) ==
  \/ ParseIntId(record.id) <= 0
  \/ StrFalsy(Trim(record.name))
  \/ IsNaN(record.value)
  \/ StrFalsy(Trim(record.status))

\* service-1.ts: table.rows.add(id, name, value, status, updatedAt)
TableRow1(record) ==
  [ Id |-> ParseIntId(record.id), Name |-> Trim(record.name),
    Value |-> ToDecimal(record.value.m), Status |-> Trim(record.status),
    UpdatedAt |-> record.updatedAt ]

\* part_000: table.rows.add(record.id, record.name, record.value, record.status, ...);
\* the Id column is SQL INT
TableRow0(record) ==
  [ Id |-> ToSqlInt(record.id), Name |-> record.name,
    Value |-> ToDecimal(record.value.m), Status |-> record.status,
    UpdatedAt |-> record.updatedAt ]

BuildThrows(kind, records) ==
  kind = "fetch1" /\ \E i \in 1..Len(records) : RowThrows(records[i])

BuildTable(kind, records) ==
  [i \in 1..Len(records) |->
     IF kind = "fetch1" THEN TableRow1(records[i]) ELSE TableRow0(records[i])]

----------------------------------------------------------------------------
(* Inputs *)

Raw(id, name, value, status, lastModified) ==
  [id |-> id, name |-> name, value |-> value, status |-> status,
   lastModified |-> lastModified]

Active == Str("Active", 0, 6, 0)

\* raw records fetched or posted in a pipeline run: ids 0, 0.5, 1, 1.5, 2,
\* names "A", " B", "  " and a name that is no string, lastModified absent
\* or a string Date cannot parse
PRecords ==
  { Raw(Num(h), Str("A", 0, 1, 0), JsNumber(10000), Active, NoTimestamp) :
      h \in {0, 1, 2, 4} }
  \cup { Raw(Num(2), Str("A", 0, 1, 0), JsNumber(10000), Active, BadTimestamp) }
  \cup { Raw(Num(h), Str("B", 1, 1, 0), JsNumber(20005), Active, NoTimestamp) :
      h \in {2, 3} }
  \cup { Raw(Num(2), Str("", 2, 0, 0), JsNumber(10000), Active, NoTimestamp),
         Raw(Num(4), NonString, JsNumber(10000), Active, NoTimestamp) }

SeqsUpTo(S, n) == UNION { [1..k -> S] : k \in 0..n }

PBatches == SeqsUpTo(PRecords, MaxLenP)

\* RecordData arrays passed to updateOpenRecordsDirect
DRecords ==
  { TransformRecord(x, now) : x \in {y \in PRecords : ~TransformThrows(<<y>>)},
                              now \in NowTimes }
  \cup { [id |-> Num(2), name |-> Str("A", 0, 1, 0), value |-> NaN,
          status |-> Active, updatedAt |-> DateOf(9)] }

DBatches == SeqsUpTo(DRecords, MaxLenP)

----------------------------------------------------------------------------
(* Runs *)

\* the runs of the sequential specifications: one call at a time
SeqRuns == {1}

Report(n, updated, skipped) == [fetched |-> n, updated |-> updated, skipped |-> skipped]

IdleRun ==
  [ pc |-> "idle", kind |-> "none", raw |-> <<>>, recs |-> <<>>, valid |-> <<>>,
    errors |-> <<>>, tvp |-> <<>>, undo |-> {}, rowcount |-> 0,
    outcome |-> "none", cause |-> "", error |-> "", report |-> Report(0, 0, 0),
    feed |-> <<>>, issues |-> <<>>, nVerify |-> 0, nBulk |-> 0, pre |-> <<>> ]

Returned(rn, report) ==
  [rn EXCEPT !.pc = "done", !.outcome = "returned", !.report = report]

\* the catch block of fetchAndUpdateRecords; processJsonRecords and
\* updateOpenRecordsDirect rethrow the error they caught
Classify(kind, cause) ==
  IF kind \in {"fetch1", "fetch0"}
  THEN CASE cause = "ECONNABORTED" -> "REQUEST_TIMEOUT"
         [] cause = "HTTP_STATUS" -> "BAD_GATEWAY"
         [] OTHER -> "INTERNAL_SERVER_ERROR"
  ELSE cause

\* cause is the error a catch block receives, error the one the caller gets
Threw(rn, cause) ==
  [rn EXCEPT !.pc = "done", !.outcome = "threw", !.cause = cause,
             !.error = Classify(rn.kind, cause)]

\* variant of VerificationFailed: the issues are logged but the run goes on
VerificationNeverFails(issues) == FALSE

\* if (verification.issues.length > 0)
VerificationFailed(issues) == Len(issues) > 0

\* variant of AssembleReport: the rejected records are left out of skipped
AssembleReportDropRejected(raw, validRecords, updateResult) ==
  Report(Len(raw), updateResult.updated, updateResult.skipped)

\* the report after updateOpenRecords returned
AssembleReport(raw, validRecords, updateResult) ==
  Report(Len(raw), updateResult.updated,
         updateResult.skipped + (Len(raw) - Len(validRecords)))

\* variant of NoValidRecords: the orchestrator goes on with an empty list
NoValidRecordsIgnored(validRecords) == FALSE

\* if (validRecords.length === 0)
NoValidRecords(validRecords) == Len(validRecords) = 0

\* variant of ProcStats: every input row is reported as updated
ProcStatsCountsInput(totalInputRecords, rowcount) ==
  [updated |-> totalInputRecords, skipped |-> 0]

\* SET @UpdatedCount = @@ROWCOUNT; SET @SkippedCount = @TotalInputRecords - @UpdatedCount
ProcStats(totalInputRecords, rowcount) ==
  [updated |-> rowcount, skipped |-> totalInputRecords - rowcount]

\* from the payload to the await of request.execute: transformExternalData,
\* validateRecords, the empty short-circuit, updateOpenRecords up to execute
ProcessInput(rn, raw, now) ==
  LET base == [rn EXCEPT !.raw = raw]
  IN IF TransformThrows(raw) THEN Threw(base, "TypeError")
     ELSE LET recs == transformExternalData(raw, now)
              v == validateRecords(recs, rn.errors)
              seen == [base EXCEPT !.recs = recs, !.valid = v.valid, !.errors = v.errors]
          IN IF NoValidRecords(v.valid)
             THEN Returned(seen, Report(Len(raw), 0, Len(raw)))
             ELSE IF BuildThrows(rn.kind, v.valid)
             THEN Threw(seen, "Invalid data in record")
             ELSE [seen EXCEPT !.pc = "exec", !.tvp = BuildTable(rn.kind, v.valid),
                               !.nBulk = @ + 1]

\* service-1.ts fetchAndUpdateRecords is called; feed is what the external
\* API holds for this run
Start1(r, B) ==
  /\ run[r].pc = "idle"
  /\ \E feed \in B :
       run' = [run EXCEPT ![r] = [IdleRun EXCEPT !.pc = "verify", !.kind = "fetch1",
                                                 !.feed = feed, !.pre = table]]
  /\ UNCHANGED <<table, catalog>>

\* await this.verifyDatabaseObjects() and the early return on issues
Verify(r) ==
  /\ run[r].pc = "verify"
  /\ \E failAt \in 0..3 :
       LET issues == verifyDatabaseObjects(catalog, failAt)
           checked == [run[r] EXCEPT !.nVerify = @ + 1, !.issues = issues]
       IN run' = [run EXCEPT ![r] =
                    IF VerificationFailed(issues)
                    THEN Returned([checked EXCEPT !.errors = issues], Report(0, 0, 0))
                    ELSE [checked EXCEPT !.pc = "fetch"]]
  /\ UNCHANGED <<table, catalog>>

\* part_000 fetchAndUpdateRecords is called (no verification step)
Start0(r, B) ==
  /\ run[r].pc = "idle"
  /\ \E feed \in B :
       run' = [run EXCEPT ![r] = [IdleRun EXCEPT !.pc = "fetch", !.kind = "fetch0",
                                                 !.feed = feed, !.pre = table]]
  /\ UNCHANGED <<table, catalog>>

\* the request times out (error.code === 'ECONNABORTED')
FetchTimeout(r) ==
  /\ run[r].pc = "fetch"
  /\ run' = [run EXCEPT ![r] = Threw(@, "ECONNABORTED")]
  /\ UNCHANGED <<table, catalog>>

\* the API answers with an error status (error.response.status)
FetchHttpError(r) ==
  /\ run[r].pc = "fetch"
  /\ run' = [run EXCEPT ![r] = Threw(@, "HTTP_STATUS")]
  /\ UNCHANGED <<table, catalog>>

\* response.data is not an array
FetchNotArray(r) ==
  /\ run[r].pc = "fetch"
  /\ run' = [run EXCEPT ![r] = Threw(@, "BAD_REQUEST")]
  /\ UNCHANGED <<table, catalog>>

\* response.data is an array
FetchArray(r) ==
  /\ run[r].pc = "fetch"
  /\ \E now \in NowTimes :
       run' = [run EXCEPT ![r] = ProcessInput(@, @.feed, now)]
  /\ UNCHANGED <<table, catalog>>

\* processJsonRecords is called with something that is not an array
JsonNotArray(r) ==
  /\ run[r].pc = "idle"
  /\ run' = [run EXCEPT ![r] =
               Threw([IdleRun EXCEPT !.kind = "json", !.pre = table], "BAD_REQUEST")]
  /\ UNCHANGED <<table, catalog>>

\* processJsonRecords is called with an array
Json(r, B) ==
  /\ run[r].pc = "idle"
  /\ \E raw \in B, now \in NowTimes :
       run' = [run EXCEPT ![r] =
                 ProcessInput([IdleRun EXCEPT !.kind = "json", !.pre = table], raw, now)]
  /\ UNCHANGED <<table, catalog>>

\* request.execute fails before the procedure body runs: the procedure or
\* the table type is missing, or the parameter does not fit
ExecUnavailable(r) ==
  /\ run[r].pc = "exec"
  /\ ~CatalogOk(catalog)
  /\ run' = [run EXCEPT ![r] = Threw(@, "Failed to update records")]
  /\ UNCHANGED <<table, catalog>>

\* variant of LockedByOthers: a transaction's writes lock nothing
LockedByNobody(runs, r) == {}

\* rows another open transaction has written: they stay locked until that
\* transaction commits or rolls back
LockedByOthers(runs, r) ==
  {id \in StoreIds : \E q \in DOMAIN runs \ {r} : \E u \in runs[q].undo : u[1] = id}

\* the UPDATE touches no row another transaction holds; otherwise it waits
CanUpdate(r) == Matched(table, run[r].tvp) \cap LockedByOthers(run, r) = {}

\* sp_UpdateOpenRecords: BEGIN TRANSACTION; SELECT @TotalInputRecords = COUNT(*)
SpBegin(r) ==
  /\ run[r].pc = "exec"
  /\ CatalogOk(catalog)
  /\ run' = [run EXCEPT ![r] = [@ EXCEPT !.pc = "tx", !.undo = {}]]
  /\ UNCHANGED <<table, catalog>>

\* sp_UpdateOpenRecords: the UPDATE ... INNER JOIN; SET @UpdatedCount = @@ROWCOUNT
SpUpdate(r) ==
  /\ run[r].pc = "tx"
  /\ CanUpdate(r)
  /\ \E pick \in Picks(table, run[r].tvp) :
       /\ table' = ApplyUpdate(table, run[r].tvp, pick)
       /\ run' = [run EXCEPT ![r] = [@ EXCEPT !.pc = "updated",
                                              !.undo = UndoLog(table, DOMAIN pick),
                                              !.rowcount = Cardinality(DOMAIN pick)]]
  /\ UNCHANGED catalog

\* sp_UpdateOpenRecords: COMMIT and the statistics row; updateOpenRecords
\* returns them and the orchestrator assembles the report
SpCommit(r) ==
  /\ run[r].pc = "updated"
  /\ LET stats == ProcStats(Len(run[r].tvp), run[r].rowcount)
     IN run' = [run EXCEPT ![r] =
                  Returned([@ EXCEPT !.undo = {}],
                           AssembleReport(@.raw, @.valid, stats))]
  /\ UNCHANGED <<table, catalog>>

\* sp_UpdateOpenRecords: an error inside TRY: CATCH rolls back and rethrows;
\* updateOpenRecords wraps it, the orchestrator's catch surfaces it
SpFail(r) ==
  /\ run[r].pc \in {"tx", "updated"}
  /\ table' = Rollback(table, run[r].undo)
  /\ run' = [run EXCEPT ![r] = Threw([@ EXCEPT !.undo = {}], "Failed to update records")]
  /\ UNCHANGED catalog

----------------------------------------------------------------------------
(* updateOpenRecordsDirect *)

\* the INSERT text cannot be built or is refused: toISOString() of an invalid
\* date throws, NaN/Infinity/undefined are no SQL literals, a name longer than
\* NVARCHAR(255) is refused
InsertFails(records) ==
  \E i \in 1..Len(records) :
     \/ records[i].id.t # "number"
     \/ records[i].value.t # "number"
     \/ records[i].updatedAt.t # "date"
     \/ Length(records[i].name) > MaxNameLen

TempRow(record) ==
  [ Id |-> ToSqlInt(record.id), Name |-> record.name,
    Value |-> ToDecimal(record.value.m), Status |-> record.status,
    UpdatedAt |-> record.updatedAt ]

\* updateOpenRecordsDirect(records) is called
DirStart(r, B) ==
  /\ run[r].pc = "idle"
  /\ \E records \in B :
       run' = [run EXCEPT ![r] = [IdleRun EXCEPT !.pc = "dbegin", !.kind = "direct",
                                                 !.valid = records, !.pre = table]]
  /\ UNCHANGED <<table, catalog>>

\* await transaction.begin(); CREATE TABLE #TempRecords
DirBegin(r) ==
  /\ run[r].pc = "dbegin"
  /\ run' = [run EXCEPT ![r] = [@ EXCEPT !.pc = "dtx", !.undo = {}]]
  /\ UNCHANGED <<table, catalog>>

\* the INSERT INTO #TempRecords loop; a failure goes to the catch block
DirInsert(r) ==
  /\ run[r].pc = "dtx"
  /\ run' = [run EXCEPT ![r] =
               IF InsertFails(@.valid) THEN Threw(@, "store error")
               ELSE [@ EXCEPT !.pc = "dinserted",
                              !.tvp = [i \in 1..Len(run[r].valid) |->
                                         TempRow(run[r].valid[i])],
                              !.nBulk = @ + 1]]
  /\ UNCHANGED <<table, catalog>>

\* the UPDATE ... INNER JOIN #TempRecords
DirUpdate(r) ==
  /\ run[r].pc = "dinserted"
  /\ CanUpdate(r)
  /\ \E pick \in Picks(table, run[r].tvp) :
       /\ table' = ApplyUpdate(table, run[r].tvp, pick)
       /\ run' = [run EXCEPT ![r] = [@ EXCEPT !.pc = "dupdated",
                                              !.undo = UndoLog(table, DOMAIN pick),
                                              !.rowcount = Cardinality(DOMAIN pick)]]
  /\ UNCHANGED catalog

\* await transaction.commit(); return updateResult.rowsAffected[0] || 0
DirCommit(r) ==
  /\ run[r].pc = "dupdated"
  /\ run' = [run EXCEPT ![r] =
               Returned([@ EXCEPT !.undo = {}],
                        Report(Len(@.valid), @.rowcount, Len(@.valid) - @.rowcount))]
  /\ UNCHANGED <<table, catalog>>

\* a store error at any await: catch: await transaction.rollback(); throw error
DirFail(r) ==
  /\ run[r].pc \in {"dbegin", "dtx", "dinserted", "dupdated"}
  /\ table' = Rollback(table, run[r].undo)
  /\ run' = [run EXCEPT ![r] = Threw([@ EXCEPT !.undo = {}], "store error")]
  /\ UNCHANGED catalog

\* the caller has the result; the service object is ready for the next call
Finish(r) ==
  /\ run[r].pc = "done"
  /\ run' = [run EXCEPT ![r] = IdleRun]
  /\ UNCHANGED <<table, catalog>>

----------------------------------------------------------------------------
(* The pipeline, one run at a time *)

Init ==
  /\ table \in InitTables
  /\ catalog \in Catalogs
  /\ run = [r \in SeqRuns |-> IdleRun]

Next ==
  \E r \in SeqRuns :
     \/ Start1(r, PBatches)
     \/ Verify(r)
     \/ Start0(r, PBatches)
     \/ FetchTimeout(r)
     \/ FetchHttpError(r)
     \/ FetchNotArray(r)
     \/ FetchArray(r)
     \/ JsonNotArray(r)
     \/ Json(r, PBatches)
     \/ ExecUnavailable(r)
     \/ SpBegin(r)
     \/ SpUpdate(r)
     \/ SpCommit(r)
     \/ SpFail(r)
     \/ DirStart(r, DBatches)
     \/ DirBegin(r)
     \/ DirInsert(r)
     \/ DirUpdate(r)
     \/ DirCommit(r)
     \/ DirFail(r)
     \/ Finish(r)

Spec == Init /\ [][Next]_vars

----------------------------------------------------------------------------
(* The normalizer and the validator on their own, over a wider record set *)

Ten == JsNumber(10000)

\* ids undefined, -1, 0, 0.5, 1, 1.5, 2 with the name "A"; ids 1 and 2 with
\* 255 characters between blanks, 256 characters, blanks only; then one field
\* at a time off the norm
VRecords ==
  { Raw(i, Str("A", 0, 1, 0), Ten, Active, NoTimestamp) :
      i \in {Undefined, Num(-2), Num(0), Num(1), Num(2), Num(3), Num(4)} }
  \cup { Raw(Num(h), n, Ten, Active, NoTimestamp) :
           h \in {2, 4},
           n \in {Str("L", 1, 255, 1), Str("M", 0, 256, 0), Str("", 2, 0, 0)} }
  \cup { Raw(Num(0), Str("", 2, 0, 0), Ten, Active, NoTimestamp) }
  \cup { Raw(Num(2), n, Ten, Active, NoTimestamp) : n \in {UndefinedStr, NonString} }
  \cup { Raw(Num(2), Str("A", 0, 1, 0), v, Active, NoTimestamp) :
           v \in {NonNumeric, Infinity, JsNumber(0)} }
  \cup { Raw(Num(2), Str("A", 0, 1, 0), Ten, st, NoTimestamp) :
           st \in {UndefinedStr, NonString, Str("", 1, 0, 0)} }
  \cup { Raw(Num(2), Str("A", 0, 1, 0), Ten, Active, ts) :
           ts \in {Timestamp(3), BadTimestamp} }

VBatches == SeqsUpTo(VRecords, MaxLenV)

\* transformExternalData(externalRecords) is applied
Normalize(r, B) ==
  /\ run[r].pc = "idle"
  /\ \E raw \in B, now \in NowTimes :
       LET called == [IdleRun EXCEPT !.kind = "normalize", !.raw = raw]
       IN run' = [run EXCEPT ![r] =
                    IF TransformThrows(raw) THEN Threw(called, "TypeError")
                    ELSE [called EXCEPT !.pc = "normalized",
                                        !.recs = transformExternalData(raw, now)]]
  /\ UNCHANGED <<table, catalog>>

\* validateRecords(transformedRecords, errors) is applied
Validate(r) ==
  /\ run[r].pc = "normalized"
  /\ LET v == validateRecords(run[r].recs, run[r].errors)
     IN run' = [run EXCEPT ![r] =
                  [@ EXCEPT !.pc = "done", !.outcome = "validated",
                            !.valid = v.valid, !.errors = v.errors]]
  /\ UNCHANGED <<table, catalog>>

InitV ==
  /\ table = [id \in StoreIds |-> InitRow(TRUE)]
  /\ catalog = [tableType |-> TRUE, proc |-> "ok"]
  /\ run = [r \in SeqRuns |-> IdleRun]

NextV ==
  \E r \in SeqRuns :
     \/ Normalize(r, VBatches)
     \/ Validate(r)
     \/ Finish(r)

SpecV == InitV /\ [][NextV]_vars

----------------------------------------------------------------------------
(* Two runs of fetchAndUpdateRecords against the same store *)

ConcRuns == {1, 2}

\* feeds of the two runs: two payloads for entity 1 and one for entity 2
CRecords ==
  { Raw(Num(h), Str("A", 0, 1, 0), JsNumber(10000), Active, NoTimestamp) : h \in {2, 4} }
  \cup { Raw(Num(2), Str("B", 1, 1, 0), JsNumber(20005), Active, Timestamp(3)) }

CBatches == SeqsUpTo(CRecords, MaxLenC)

InitC ==
  /\ table \in {tb \in [StoreIds -> {InitRow(TRUE), InitRow(FALSE)}] : tb[1].isOpen}
  /\ catalog = [tableType |-> TRUE, proc |-> "ok"]
  /\ run = [r \in ConcRuns |-> IdleRun]

\* each of the two callers calls once; their steps interleave at the awaits
NextC ==
  \E r \in ConcRuns :
     \/ Start1(r, CBatches)
     \/ Verify(r)
     \/ FetchArray(r)
     \/ SpBegin(r)
     \/ SpUpdate(r)
     \/ SpCommit(r)
     \/ SpFail(r)

SpecC == InitC /\ [][NextC]_vars

----------------------------------------------------------------------------
(* Properties *)

PipelineKinds == {"fetch1", "fetch0", "json"}

\* positions (1-based) of the records validateRecords rejected / accepted
Rejected(rn) == {rn.errors[k].index : k \in 1..Len(rn.errors)}
Accepted(rn) == (1..Len(rn.recs)) \ Rejected(rn)

HasReason(rn, i, msg) ==
  \E k \in 1..Len(rn.errors) :
     /\ rn.errors[k].index = i
     /\ \E q \in 1..Len(rn.errors[k].reasons) : rn.errors[k].reasons[q].msg = msg

DuplicateMsg == "Duplicate ID found at index"
TooLongMsg == "Name exceeds maximum length (255 characters)"

\* rows of the bulk parameter that name a stored entity that was closed
\* when the run began
ClosedTargets(rn) ==
  {i \in 1..Len(rn.tvp) :
     rn.tvp[i].Id \in DOMAIN rn.pre /\ ~rn.pre[rn.tvp[i].Id].isOpen}

\* C1: a pipeline run that returns a report has counted every raw input
\* record exactly once: fetched/processed is the number of raw records and
\* updated + skipped equals it, on the empty short-circuit and after the
\* bulk update alike.
C1_UpdatedPlusSkipped ==
  \A r \in DOMAIN run :
     (run[r].kind \in PipelineKinds /\ run[r].outcome = "returned")
     => /\ run[r].report.fetched = Len(run[r].raw)
        /\ run[r].report.updated + run[r].report.skipped = Len(run[r].raw)

\* a run through the bulk update with one row updated, one record rejected
\* by validation and one accepted record skipped by the store
C1_Witness ==
  \E r \in DOMAIN run :
     /\ run[r].kind = "fetch1" /\ run[r].outcome = "returned"
     /\ Len(run[r].raw) = 2 /\ Len(run[r].valid) = 1
     /\ run[r].report.updated = 1 /\ run[r].report.skipped = 1

\* C2: an entity that is closed (isOpen false) keeps its name, value, status
\* and updatedAt through every run, also when the accepted batch carries its
\* id, and the records aimed at closed entities are counted in skipped.
C2_ClosedUnchanged ==
  \A r \in DOMAIN run :
     (run[r].kind \in PipelineKinds \cup {"direct"})
     => /\ \A id \in DOMAIN table :
             ~run[r].pre[id].isOpen
             => table[id] = run[r].pre[id] /\ table[id] = InitRow(FALSE)
        /\ (run[r].kind \in PipelineKinds /\ run[r].outcome = "returned"
            /\ run[r].nBulk > 0)
           => run[r].report.skipped >=
                Cardinality(ClosedTargets(run[r]))
                + (Len(run[r].raw) - Len(run[r].valid))

\* a returned run whose batch named a closed entity with new values and
\* also updated an open one
C2_Witness ==
  \E r \in DOMAIN run :
     /\ run[r].kind = "fetch1" /\ run[r].outcome = "returned"
     /\ run[r].report.updated >= 1
     /\ \E i \in ClosedTargets(run[r]) :
          run[r].tvp[i].Name # run[r].pre[run[r].tvp[i].Id].Name

\* C3: when the bulk update fails after its transaction began, the run
\* raises the failure, the transaction is rolled back (nothing is left in
\* its undo log), every stored row has its value from before the call and
\* no statistics are returned.
C3_AllOrNothing ==
  \A r \in DOMAIN run :
     (run[r].kind \in PipelineKinds \cup {"direct"} /\ run[r].outcome = "threw")
     => /\ table = run[r].pre
        /\ run[r].undo = {}
        /\ run[r].report = Report(0, 0, 0)

\* a failure after the UPDATE had already written rows
C3_Witness ==
  \E r \in DOMAIN run :
     /\ run[r].outcome = "threw" /\ run[r].kind \in {"fetch1", "direct"}
     /\ run[r].rowcount > 0

\* C4: the batch the orchestrator passes to updateOpenRecords has pairwise
\* distinct ids, and the rows sent to the store name each stored entity at
\* most once.
C4_DistinctTargets ==
  \A r \in DOMAIN run :
     (run[r].kind = "fetch1" /\ run[r].nBulk > 0)
     => /\ \A i, j \in 1..Len(run[r].valid) :
             i # j => run[r].valid[i].id # run[r].valid[j].id
        /\ \A i, j \in 1..Len(run[r].tvp) :
             i # j => run[r].tvp[i].Id # run[r].tvp[j].Id

\* C5 as stated: an accepted record is the earliest record of the input
\* with its id, and every later record with that id is rejected.
C5_FirstOccurrenceOnly ==
  \A r \in DOMAIN run :
     run[r].outcome = "validated"
     => \A i \in Accepted(run[r]) : \A j \in 1..Len(run[r].recs) :
           (j # i /\ run[r].recs[j].id = run[r].recs[i].id)
           => (j > i /\ j \in Rejected(run[r]))

\* C5 as amended: an accepted record is the only accepted record with its
\* id; every earlier record with that id was rejected, and every later one
\* is rejected with the duplicate-id reason.
C5_FirstAcceptedOnly ==
  \A r \in DOMAIN run :
     run[r].outcome = "validated"
     => \A i \in Accepted(run[r]) : \A j \in 1..Len(run[r].recs) :
           (j # i /\ run[r].recs[j].id = run[r].recs[i].id)
           => /\ j \in Rejected(run[r])
              /\ j > i => HasReason(run[r], j, DuplicateMsg)
              /\ j < i => ~HasReason(run[r], j, DuplicateMsg)

\* an id whose first record is rejected, whose second is accepted and whose
\* third is rejected as a duplicate
C5_Witness ==
  \E r \in DOMAIN run :
     /\ run[r].outcome = "validated"
     /\ Len(run[r].recs) = 3
     /\ run[r].recs[1].id = run[r].recs[2].id
     /\ run[r].recs[2].id = run[r].recs[3].id
     /\ Accepted(run[r]) = {2}
     /\ HasReason(run[r], 3, DuplicateMsg)

C7_PreflightBeforeBulk ==
  \A r \in DOMAIN run :
     (run[r].kind \in PipelineKinds /\ run[r].nBulk > 0)
     => run[r].nVerify = 1 /\ Len(run[r].issues) = 0

\* C8: a record whose id is that of an earlier accepted record is rejected
\* with 'Duplicate ID found at index k', k the 1-based position of that
\* accepted record, and the reason is given to no other record.
C8_DuplicateIndexOneBased ==
  \A r \in DOMAIN run :
     run[r].outcome = "validated"
     => /\ \A i \in Accepted(run[r]) : \A j \in (i + 1)..Len(run[r].recs) :
             run[r].recs[j].id = run[r].recs[i].id
             => \E k \in 1..Len(run[r].errors) :
                   /\ run[r].errors[k].index = j
                   /\ \E q \in 1..Len(run[r].errors[k].reasons) :
                        run[r].errors[k].reasons[q] = DuplicateReason(i)
        /\ \A k \in 1..Len(run[r].errors) :
             \A q \in 1..Len(run[r].errors[k].reasons) :
                run[r].errors[k].reasons[q].msg = DuplicateMsg
                => \E i \in Accepted(run[r]) :
                      /\ i < run[r].errors[k].index
                      /\ run[r].recs[i].id = run[r].errors[k].id
                      /\ run[r].errors[k].reasons[q].at = i

\* the record at position i fails no check other than the name length
OtherwiseValid(rn, i) ==
  /\ rn.recs[i].id.t = "number" /\ rn.recs[i].id.h > 0
  /\ rn.recs[i].value.t # "NaN"
  /\ rn.recs[i].status.t = "string" /\ Length(rn.recs[i].status) > 0
  /\ \A j \in 1..(i - 1) : rn.recs[j].id # rn.recs[i].id

\* C9: a name of 256 or more characters is rejected with 'Name exceeds
\* maximum length (255 characters)', a name of 1..255 characters never gets
\* that reason, and an otherwise valid record whose trimmed name has
\* exactly 255 characters is accepted.
C9_NameBoundary ==
  \A r \in DOMAIN run :
     run[r].outcome = "validated"
     => \A i \in 1..Len(run[r].recs) :
           LET n == Length(run[r].recs[i].name)
           IN /\ n >= 256 => (i \in Rejected(run[r]) /\ HasReason(run[r], i, TooLongMsg))
              /\ (n >= 1 /\ n <= 255) => ~HasReason(run[r], i, TooLongMsg)
              /\ (n = 255 /\ OtherwiseValid(run[r], i)) => i \in Accepted(run[r])

\* one batch with a 255-character name (257 before trimming) accepted and a
\* 256-character name rejected
C9_Witness ==
  \E r \in DOMAIN run :
     /\ run[r].outcome = "validated"
     /\ \E i \in Accepted(run[r]) :
          Length(run[r].recs[i].name) = 255 /\ Length(run[r].raw[i].name) = 257
     /\ \E j \in Rejected(run[r]) :
          Length(run[r].recs[j].name) = 256 /\ HasReason(run[r], j, TooLongMsg)

\* C10: the normalizer never raises and returns one canonical record per
\* raw record.
C10_NormalizerTotal ==
  \A r \in DOMAIN run :
     run[r].kind = "normalize"
     => /\ run[r].outcome # "threw"
        /\ Len(run[r].recs) = Len(run[r].raw)

\* C11: the normalized updatedAt of a record is the parsed source timestamp
\* when lastModified parses, and the current time when lastModified is
\* absent or does not parse; every row handed to the bulk update carries a
\* valid date.
C11_TimestampParsedOrNow ==
  \A r \in DOMAIN run :
     run[r].kind \in PipelineKinds
     => /\ \A i \in 1..Len(run[r].recs) :
             IF run[r].raw[i].lastModified.t = "string"
             THEN run[r].recs[i].updatedAt = DateOf(run[r].raw[i].lastModified.ms)
             ELSE run[r].recs[i].updatedAt \in NowTimes
        /\ \A i \in 1..Len(run[r].tvp) : run[r].tvp[i].UpdatedAt.t = "date"

\* the run got an array, normalized it and validated it
Validated(rn) ==
  /\ rn.kind \in PipelineKinds
  /\ rn.pc \notin {"idle", "verify", "fetch"}
  /\ Len(rn.issues) = 0
  /\ rn.cause \notin {"ECONNABORTED", "HTTP_STATUS", "BAD_REQUEST", "TypeError"}

\* C12: when validation accepts no record (the empty input included) the
\* run has returned without issuing the bulk update, with updated = 0,
\* skipped = the number of raw records and the rejection diagnostics, one
\* per raw record; and a bulk update is only ever issued for a non-empty
\* accepted batch, one row per accepted record.
C12_EmptyBatchSkipsReconciler ==
  \A r \in DOMAIN run :
     /\ (Validated(run[r]) /\ Len(run[r].valid) = 0)
        => /\ run[r].pc = "done" /\ run[r].outcome = "returned"
           /\ run[r].nBulk = 0
           /\ run[r].tvp = <<>>
           /\ run[r].report = Report(Len(run[r].raw), 0, Len(run[r].raw))
           /\ run[r].errors = validateRecords(run[r].recs, <<>>).errors
           /\ Len(run[r].errors) = Len(run[r].raw)
           /\ table = run[r].pre
     /\ (run[r].kind \in PipelineKinds /\ run[r].nBulk > 0)
        => /\ Len(run[r].valid) > 0
           /\ Len(run[r].tvp) = Len(run[r].valid)

\* a run over two raw records, both rejected by validation
C12_Witness ==
  \E r \in DOMAIN run :
     /\ Validated(run[r]) /\ run[r].kind = "fetch1"
     /\ Len(run[r].raw) = 2 /\ Len(run[r].valid) = 0
     /\ Len(run[r].errors) = 2
     /\ run[r].outcome = "returned"

\* the position of the k-th accepted record
KthAccepted(rn, k) ==
  CHOOSE p \in Accepted(rn) : Cardinality({q \in Accepted(rn) : q <= p}) = k

\* C13: validation partitions the batch: the accepted list and the
\* diagnostics together count every input record once; there is exactly one
\* diagnostic per rejected record, tagged with its 1-based position and its
\* id, in input order; and the accepted list is the input with the rejected
\* records taken out, in input order.
C13_ValidationPartitions ==
  \A r \in DOMAIN run :
     run[r].outcome = "validated"
     => LET rn == run[r]
            n == Len(rn.recs)
        IN /\ Len(rn.valid) + Len(rn.errors) = n
           /\ \A k \in 1..Len(rn.errors) :
                /\ rn.errors[k].index \in 1..n
                /\ rn.errors[k].id = rn.recs[rn.errors[k].index].id
                /\ Len(rn.errors[k].reasons) >= 1
           /\ \A k \in 1..(Len(rn.errors) - 1) :
                rn.errors[k].index < rn.errors[k + 1].index
           /\ Len(rn.valid) = Cardinality(Accepted(rn))
           /\ \A k \in 1..Len(rn.valid) : rn.valid[k] = rn.recs[KthAccepted(rn, k)]

\* a batch of three with the first and the third record rejected
C13_Witness ==
  \E r \in DOMAIN run :
     /\ run[r].outcome = "validated"
     /\ Len(run[r].recs) = 3
     /\ Rejected(run[r]) = {1, 3}
     /\ Len(run[r].valid) = 1 /\ Len(run[r].errors) = 2
     /\ run[r].recs[1].id # run[r].recs[3].id

\* the accepted records of the run name no open entity of the store
NoOpenTarget(rn) ==
  \A i \in 1..Len(rn.tvp) :
     rn.tvp[i].Id \in DOMAIN rn.pre => ~rn.pre[rn.tvp[i].Id].isOpen

C15_NotArrayIsFormatError ==
  \A r \in DOMAIN run :
     (run[r].kind \in {"fetch1", "fetch0"} /\ run[r].cause = "BAD_REQUEST")
     => /\ run[r].outcome = "threw"
        /\ run[r].error = "BAD_REQUEST"
        /\ run[r].error \notin {"REQUEST_TIMEOUT", "BAD_GATEWAY", "INTERNAL_SERVER_ERROR"}
        /\ run[r].nBulk = 0
        /\ table = run[r].pre

\* the stored row has the values of the batch record, as the columns
\* NVARCHAR, DECIMAL(10,2) and DATETIME2 hold them
HoldsRecord(row, record) ==
  /\ row.Name = record.name
  /\ row.Value = ToDecimal(record.value.m)
  /\ row.Status = record.status
  /\ row.UpdatedAt = record.updatedAt

\* C17: the bulk update never writes isOpen and never inserts or deletes:
\* through every call, committed or rolled back, the stored ids and each
\* entity's isOpen are what they were before it; a stored entity differs
\* from its value before the call only if it is open and its id is the id
\* of a record of the batch, and then it holds that record's name, value,
\* status and updatedAt.
C17_ReconcilerFrame ==
  \A r \in DOMAIN run :
     (run[r].kind \in PipelineKinds \cup {"direct"})
     => /\ DOMAIN table = DOMAIN run[r].pre
        /\ \A id \in DOMAIN table :
             /\ table[id].isOpen = run[r].pre[id].isOpen
             /\ table[id] # run[r].pre[id]
                => /\ table[id].isOpen
                   /\ \E i \in 1..Len(run[r].valid) :
                        /\ run[r].valid[i].id = Num(2 * id)
                        /\ HoldsRecord(table[id], run[r].valid[i])

\* C18: every record the validator accepted passes the per-row checks of
\* updateOpenRecords, so no run fails with 'Invalid data in record ...', and
\* the row built for an accepted record carries the id the record was
\* validated under.
C18_AcceptedPassesRowChecks ==
  \A r \in DOMAIN run :
     (run[r].kind = "fetch1" /\ Validated(run[r]))
     => /\ \A i \in 1..Len(run[r].valid) : ~RowThrows(run[r].valid[i])
        /\ run[r].cause # "Invalid data in record"
        /\ \A i \in 1..Len(run[r].tvp) : Num(2 * run[r].tvp[i].Id) = run[r].valid[i].id

\* the open stored row holds the values of a record some run accepted for id
HoldsRecordOf(rn, id) ==
  \E i \in 1..Len(rn.valid) :
     /\ rn.valid[i].id = Num(2 * id)
     /\ HoldsRecord(table[id], rn.valid[i])

====
